---- MODULE Spec2Model ----
(***************************************************************************)
(* Model of Final.py: the fire-data loader, the earthquake-data loader,    *)
(* the plot renderer and the menu loop of main.                            *)
(*                                                                         *)
(* Representation.  Strings that the program inspects character by         *)
(* character (titles, filenames) are sequences of one-character strings.   *)
(* A CSV document is the sequence of rows csv.reader yields, a row being   *)
(* a sequence of field strings.  A JSON object is a record whose domain    *)
(* is the set of keys present; a nullable JSON number is a sequence of     *)
(* length at most one (<<>> is null).  Floats are integers.                *)
(***************************************************************************)
EXTENDS Integers, Sequences, FiniteSets, TLC

VARIABLES pc,     \* position of main: "prompt", "exited" or "crashed"
          fs,     \* working directory: filename -> content
          last    \* what the last completed call did (input, result, output)

vars == <<pc, fs, last>>

(***************************************************************************)
(* Bounds of the input spaces.                                             *)
(***************************************************************************)
MaxRows == 2
MaxCols == 3
MaxFeatures == 2
MaxVals == 2
MaxTitleLen == 1
MaxFiles == 2

Range(s) == {s[i] : i \in 1..Len(s)}

SeqsUpTo(S, n) == UNION {[1..k -> S] : k \in 0..n}

(***************************************************************************)
(* Characters and str.lower().                                             *)
(***************************************************************************)
UpperLetters == <<"A","B","C","D","E","F","G","H","I","J","K","L","M",
                  "N","O","P","Q","R","S","T","U","V","W","X","Y","Z">>
LowerLetters == <<"a","b","c","d","e","f","g","h","i","j","k","l","m",
                  "n","o","p","q","r","s","t","u","v","w","x","y","z">>

LowerChar(c) ==
    IF \E i \in 1..Len(UpperLetters) : UpperLetters[i] = c
    THEN LowerLetters[CHOOSE i \in 1..Len(UpperLetters) : UpperLetters[i] = c]
    ELSE c

StrLower(s) == [i \in 1..Len(s) |-> LowerChar(s[i])]

StrReplaceSpace(s) == [i \in 1..Len(s) |-> IF s[i] = " " THEN "_" ELSE s[i]]

CacheFile == <<"w","o","r","l","d","_","f","i","r","e","s","_","1","_",
               "d","a","y",".","c","s","v">>

FireTitle == <<"G","l","o","b","a","l"," ","F","i","r","e"," ",
               "A","c","t","i","v","i","t","y">>

QuakeTitle == <<"G","l","o","b","a","l"," ","E","a","r","t","h","q","u","a",
                "k","e","s"," ","(","P","a","s","t"," ","2","4"," ",
                "H","o","u","r","s",")">>

(***************************************************************************)
(* The file system: open(name, 'w').write(content) creates or replaces.    *)
(***************************************************************************)
WriteFile(f, name, content) ==
    [n \in DOMAIN f \cup {name} |-> IF n = name THEN content ELSE f[n]]

NoFiles == [n \in {} |-> <<>>]

(***************************************************************************)
(* float(): the fields that parse as numbers, and their values.            *)
(***************************************************************************)
FloatVal == ("1" :> 1) @@ ("2" :> 2) @@ ("3" :> 3) @@ ("-4" :> -4)

IsFloat(s) == s \in DOMAIN FloatVal

(***************************************************************************)
(* list.index(name): position of the first occurrence.                     *)
(***************************************************************************)
Index(row, name) ==
    CHOOSE i \in 1..Len(row) : row[i] = name /\ \A j \in 1..(i-1) : row[j] # name

(***************************************************************************)
(* One iteration of the row loop of fetch_fire_data.  The three fields     *)
(* are read and coerced in the order lat, lon, bright; the first failure   *)
(* decides: a subscript out of range is an IndexError, which the           *)
(* except ValueError clause does not catch; a failed coercion is a         *)
(* ValueError and the row is skipped.                                      *)
(***************************************************************************)
ParseRow(row, lat_index, lon_index, bright_index) ==
    LET Step(i) == IF i > Len(row) THEN "IndexError"
                   ELSE IF ~IsFloat(row[i]) THEN "ValueError"
                   ELSE "ok"
        order == <<lat_index, lon_index, bright_index>>
        bad   == {k \in 1..3 : Step(order[k]) # "ok"}
    IN  IF bad = {}
        THEN [kind |-> "ok", lat |-> FloatVal[row[lat_index]],
              lon |-> FloatVal[row[lon_index]],
              bright |-> FloatVal[row[bright_index]]]
        ELSE LET first == CHOOSE k \in bad : \A m \in bad : k <= m
             IN  [kind |-> Step(order[first])]

RECURSIVE ReadRows(_, _, _, _, _)
ReadRows(rows, lat_index, lon_index, bright_index, acc) ==
    IF rows = <<>> THEN [kind |-> "ok", ret |-> acc]
    ELSE LET p == ParseRow(Head(rows), lat_index, lon_index, bright_index)
         IN  IF p.kind = "IndexError" THEN [kind |-> "IndexError"]
             ELSE IF p.kind = "ValueError"
             THEN ReadRows(Tail(rows), lat_index, lon_index, bright_index, acc)
             ELSE ReadRows(Tail(rows), lat_index, lon_index, bright_index,
                           <<Append(acc[1], p.lat), Append(acc[2], p.lon),
                             Append(acc[3], p.bright)>>)

NoRet == <<>>

Msg(text) == [text |-> text, arg |-> <<>>]

Returned(ret, msgs, f) ==
    [outcome |-> "returned", ret |-> ret, exc |-> "", msgs |-> msgs, fs |-> f]

Raised(exc, msgs, f) ==
    [outcome |-> "raised", ret |-> NoRet, exc |-> exc, msgs |-> msgs, fs |-> f]

(***************************************************************************)
(* The parsing half of fetch_fire_data: the cache file is opened again     *)
(* and read.  next(reader) on a file without rows is a StopIteration.      *)
(***************************************************************************)
ParseFireFile(f) ==
    LET rows == f[CacheFile]
    IN  IF rows = <<>> THEN Raised("StopIteration", <<>>, f)
        ELSE LET header_row == Head(rows) IN
             IF ~({"latitude", "longitude", "brightness"} \subseteq Range(header_row))
             THEN Returned(<< <<>>, <<>>, <<>> >>,
                    <<Msg("Error: CSV file does not contain expected columns.")>>, f)
             ELSE LET r == ReadRows(Tail(rows), Index(header_row, "latitude"),
                                    Index(header_row, "longitude"),
                                    Index(header_row, "brightness"),
                                    << <<>>, <<>>, <<>> >>)
                  IN  IF r.kind = "ok" THEN Returned(r.ret, <<>>, f)
                      ELSE Raised(r.kind, <<>>, f)

\* Faulty variant: the RequestException is not caught.
fetch_fire_data_uncaught(net, f) ==
    IF net.status # "ok"
    THEN Raised("RequestException", <<>>, f)
    ELSE ParseFireFile(WriteFile(f, CacheFile, net.body))

\* Faulty variant: the cache file is opened for writing before the request is made.
fetch_fire_data_open_first(net, f) ==
    IF net.status # "ok"
    THEN Returned(<< <<>>, <<>>, <<>> >>, <<Msg("Error fetching fire data")>>,
                  WriteFile(f, CacheFile, <<>>))
    ELSE ParseFireFile(WriteFile(f, CacheFile, net.body))

(***************************************************************************)
(* fetch_fire_data.  net is what the GET produces: status "ok" with a      *)
(* body, "connection_error" (requests.get raises) or "http_error"          *)
(* (raise_for_status raises); both are RequestExceptions.  On "ok" the     *)
(* body is written to the cache file, which is then parsed.                *)
(***************************************************************************)
fetch_fire_data(net, f) ==
    IF net.status # "ok"
    THEN Returned(<< <<>>, <<>>, <<>> >>, <<Msg("Error fetching fire data")>>, f)
    ELSE ParseFireFile(WriteFile(f, CacheFile, net.body))

\* Faulty variant: latitude is taken before longitude.
ReadFeature_LatFirst(eq_dict) ==
    IF "properties" \notin DOMAIN eq_dict THEN [kind |-> "KeyError"]
    ELSE IF "mag" \notin DOMAIN eq_dict.properties THEN [kind |-> "KeyError"]
    ELSE IF eq_dict.properties.mag = <<>> THEN [kind |-> "skip"]
    ELSE IF "geometry" \notin DOMAIN eq_dict THEN [kind |-> "KeyError"]
    ELSE IF "coordinates" \notin DOMAIN eq_dict.geometry THEN [kind |-> "KeyError"]
    ELSE IF Len(eq_dict.geometry.coordinates) < 2 THEN [kind |-> "IndexError"]
    ELSE IF "title" \notin DOMAIN eq_dict.properties THEN [kind |-> "KeyError"]
    ELSE [kind |-> "ok", mag |-> eq_dict.properties.mag[1],
          lon |-> eq_dict.geometry.coordinates[2],
          lat |-> eq_dict.geometry.coordinates[1],
          title |-> eq_dict.properties.title]

\* Faulty variant: a feature of the wrong shape is skipped like one with mag null.
ReadFeature_SkipMalformed(eq_dict) ==
    IF "properties" \notin DOMAIN eq_dict THEN [kind |-> "skip"]
    ELSE IF "mag" \notin DOMAIN eq_dict.properties THEN [kind |-> "skip"]
    ELSE IF eq_dict.properties.mag = <<>> THEN [kind |-> "skip"]
    ELSE IF "geometry" \notin DOMAIN eq_dict THEN [kind |-> "skip"]
    ELSE IF "coordinates" \notin DOMAIN eq_dict.geometry THEN [kind |-> "skip"]
    ELSE IF Len(eq_dict.geometry.coordinates) < 2 THEN [kind |-> "skip"]
    ELSE IF "title" \notin DOMAIN eq_dict.properties THEN [kind |-> "skip"]
    ELSE [kind |-> "ok", mag |-> eq_dict.properties.mag[1],
          lon |-> eq_dict.geometry.coordinates[1],
          lat |-> eq_dict.geometry.coordinates[2],
          title |-> eq_dict.properties.title]

(***************************************************************************)
(* One iteration of the feature loop of fetch_earthquake_data.  Subscripts *)
(* are evaluated in source order: properties.mag, the None test, then      *)
(* geometry.coordinates[0], [1] and properties.title.  A missing key is a  *)
(* KeyError and a short coordinate list an IndexError; neither is a        *)
(* RequestException.                                                       *)
(***************************************************************************)
ReadFeature(eq_dict) ==
    IF "properties" \notin DOMAIN eq_dict THEN [kind |-> "KeyError"]
    ELSE IF "mag" \notin DOMAIN eq_dict.properties THEN [kind |-> "KeyError"]
    ELSE IF eq_dict.properties.mag = <<>> THEN [kind |-> "skip"]
    ELSE IF "geometry" \notin DOMAIN eq_dict THEN [kind |-> "KeyError"]
    ELSE IF "coordinates" \notin DOMAIN eq_dict.geometry THEN [kind |-> "KeyError"]
    ELSE IF Len(eq_dict.geometry.coordinates) < 1 THEN [kind |-> "IndexError"]
    ELSE IF Len(eq_dict.geometry.coordinates) < 2 THEN [kind |-> "IndexError"]
    ELSE IF "title" \notin DOMAIN eq_dict.properties THEN [kind |-> "KeyError"]
    ELSE [kind |-> "ok", mag |-> eq_dict.properties.mag[1],
          lon |-> eq_dict.geometry.coordinates[1],
          lat |-> eq_dict.geometry.coordinates[2],
          title |-> eq_dict.properties.title]

RECURSIVE ReadFeatures(_, _)
ReadFeatures(features, acc) ==
    IF features = <<>> THEN [kind |-> "ok", ret |-> acc]
    ELSE LET p == ReadFeature(Head(features))
         IN  IF p.kind = "skip" THEN ReadFeatures(Tail(features), acc)
             ELSE IF p.kind = "ok"
             THEN ReadFeatures(Tail(features),
                               <<Append(acc[1], p.mag), Append(acc[2], p.lon),
                                 Append(acc[3], p.lat), Append(acc[4], p.title)>>)
             ELSE [kind |-> p.kind]

(***************************************************************************)
(* fetch_earthquake_data.  The body of an "ok" response is the parsed      *)
(* JSON document.                                                          *)
(***************************************************************************)
fetch_earthquake_data(net, f) ==
    IF net.status # "ok"
    THEN Returned(<< <<>>, <<>>, <<>>, <<>> >>,
                  <<Msg("Error fetching earthquake data")>>, f)
    ELSE IF "features" \notin DOMAIN net.body THEN Raised("KeyError", <<>>, f)
    ELSE LET r == ReadFeatures(net.body.features, << <<>>, <<>>, <<>>, <<>> >>)
         IN  IF r.kind = "ok" THEN Returned(r.ret, <<>>, f)
             ELSE Raised(r.kind, <<>>, f)

(***************************************************************************)
(* plot_data.                                                              *)
(***************************************************************************)
\* Faulty variant: the floor of 5 is missing.
MarkerSize_NoFloor(val, colorbar_title) ==
    IF colorbar_title = "Magnitude" THEN 5 * val ELSE 10

MarkerSize(val, colorbar_title) ==
    IF colorbar_title = "Magnitude"
    THEN (IF 5 * val > 5 THEN 5 * val ELSE 5)
    ELSE 10

MarkerSizes(values, colorbar_title) ==
    [i \in 1..Len(values) |-> MarkerSize(values[i], colorbar_title)]

\* text is the optional argument: [given |-> FALSE] is None.
HoverText(text) == IF text.given /\ text.v # <<>> THEN text.v ELSE <<>>

NoText == [given |-> FALSE]

\* Faulty variant: the title is not lower-cased.
Filename_NoLower(title) == StrReplaceSpace(title) \o <<".","h","t","m","l">>

Filename(title) == StrReplaceSpace(StrLower(title)) \o <<".","h","t","m","l">>

Figure(lons, lats, values, title, colorbar_title, colorscale, reverse_scale, text) ==
    [data |-> <<[type |-> "scattergeo", lon |-> lons, lat |-> lats,
                 text |-> HoverText(text),
                 marker |-> [size |-> MarkerSizes(values, colorbar_title),
                             color |-> values,
                             colorscale |-> colorscale,
                             reversescale |-> reverse_scale,
                             colorbar |-> [title |-> colorbar_title]]]>>,
     layout |-> [title |-> title]]

NoPlot == [called |-> FALSE]

plot_data(f, lons, lats, values, title, colorbar_title, colorscale, reverse_scale, text) ==
    LET fig      == Figure(lons, lats, values, title, colorbar_title, colorscale,
                           reverse_scale, text)
        filename == Filename(title)
    IN  [fs   |-> WriteFile(f, filename, fig),
         plot |-> [called |-> TRUE, filename |-> filename, fig |-> fig,
                   replaced |-> filename \in DOMAIN f],
         msgs |-> <<[text |-> "Plot saved as ", arg |-> filename]>>]

(***************************************************************************)
(* main: one action per branch of the menu loop.  An exception that a      *)
(* loader lets through is caught nowhere in main and ends the process.     *)
(***************************************************************************)
NoNet == [status |-> "none"]

Done(choice, net, r, plot, msgs) ==
    [choice |-> choice, net |-> net, outcome |-> r.outcome, exc |-> r.exc,
     ret |-> r.ret, plot |-> plot, msgs |-> msgs]

SelectFire(net) ==
    /\ pc = "prompt"
    /\ LET r == fetch_fire_data(net, fs) IN
       IF r.outcome = "raised"
       THEN /\ pc' = "crashed"
            /\ fs' = r.fs
            /\ last' = Done("1", net, r, NoPlot, r.msgs)
       ELSE IF r.ret[1] # <<>>
       THEN LET p == plot_data(r.fs, r.ret[2], r.ret[1], r.ret[3], FireTitle,
                              "Brightness", "YlOrRd", FALSE, NoText)
            IN  /\ pc' = "prompt"
                /\ fs' = p.fs
                /\ last' = Done("1", net, r, p.plot, r.msgs \o p.msgs)
       ELSE /\ pc' = "prompt"
            /\ fs' = r.fs
            /\ last' = Done("1", net, r, NoPlot,
                            r.msgs \o <<Msg("No fire data available to plot.")>>)

SelectQuake(net) ==
    /\ pc = "prompt"
    /\ LET r == fetch_earthquake_data(net, fs) IN
       IF r.outcome = "raised"
       THEN /\ pc' = "crashed"
            /\ fs' = r.fs
            /\ last' = Done("2", net, r, NoPlot, r.msgs)
       ELSE IF r.ret[3] # <<>>
       THEN LET p == plot_data(r.fs, r.ret[2], r.ret[3], r.ret[1], QuakeTitle,
                              "Magnitude", "Viridis", TRUE,
                              [given |-> TRUE, v |-> r.ret[4]])
            IN  /\ pc' = "prompt"
                /\ fs' = p.fs
                /\ last' = Done("2", net, r, p.plot, r.msgs \o p.msgs)
       ELSE /\ pc' = "prompt"
            /\ fs' = r.fs
            /\ last' = Done("2", net, r, NoPlot,
                            r.msgs \o <<Msg("No earthquake data available to plot.")>>)

SelectExit ==
    /\ pc = "prompt"
    /\ pc' = "exited"
    /\ fs' = fs
    /\ last' = [choice |-> "3", net |-> NoNet, outcome |-> "returned", exc |-> "",
                ret |-> NoRet, plot |-> NoPlot, msgs |-> <<Msg("Exiting program.")>>]

SelectInvalid(choice) ==
    /\ pc = "prompt"
    /\ choice \notin {"1", "2", "3"}
    /\ pc' = "prompt"
    /\ fs' = fs
    /\ last' = [choice |-> choice, net |-> NoNet, outcome |-> "returned", exc |-> "",
                ret |-> NoRet, plot |-> NoPlot,
                msgs |-> <<Msg("Invalid choice. Please enter 1, 2, or 3.")>>]

Init ==
    /\ pc = "prompt"
    /\ fs = NoFiles
    /\ last = [choice |-> "none", net |-> NoNet, outcome |-> "returned", exc |-> "",
               ret |-> NoRet, plot |-> NoPlot, msgs |-> <<>>]

(***************************************************************************)
(* Inputs of the menu loop: a few responses of each kind.                  *)
(***************************************************************************)
FailedNets == {[status |-> "connection_error"], [status |-> "http_error"]}

Ok(body) == [status |-> "ok", body |-> body]

SampleCsvs ==
    { <<>>,
      << <<"latitude", "longitude", "brightness">> >>,
      << <<"latitude", "longitude", "brightness">>, <<"1", "2", "3">> >>,
      << <<"latitude", "longitude", "brightness">>,
         <<"1", "2", "3">>, <<"2", "-4", "x">>, <<"3", "1", "2">> >>,
      << <<"brightness", "latitude", "longitude">>, <<"3", "1", "2">>, <<"3">> >>,
      << <<"latitude", "longitude", "scan">>, <<"1", "2", "3">> >> }

Feature(mag, coords, title) ==
    [properties |-> [mag |-> mag, title |-> title],
     geometry |-> [coordinates |-> coords]]

SampleFeeds ==
    { [features |-> <<>>],
      [features |-> <<Feature(<<2>>, <<7, 8, 9>>, "M 2")>>],
      [features |-> <<Feature(<<2>>, <<7, 8, 9>>, "M 2"),
                      Feature(<<>>, <<5, 6, 0>>, "M ?"),
                      Feature(<<-1>>, <<8, 7, 9>>, "M -1")>>],
      [features |-> <<Feature(<<2>>, <<7, 8, 9>>, "M 2"),
                      [properties |-> [mag |-> <<1>>],
                       geometry |-> [coordinates |-> <<7, 8>>]]>>],
      [features |-> <<[properties |-> [title |-> "M ?"],
                       geometry |-> [coordinates |-> <<7, 8>>]]>>] }

InvalidInputs == {"", "0", "4", "one"}

Next ==
    \/ \E net \in FailedNets \cup {Ok(b) : b \in SampleCsvs} : SelectFire(net)
    \/ \E net \in FailedNets \cup {Ok(b) : b \in SampleFeeds} : SelectQuake(net)
    \/ SelectExit
    \/ \E c \in InvalidInputs : SelectInvalid(c)

Spec == Init /\ [][Next]_vars

(***************************************************************************)
(* fetch_fire_data on its own, once, over every CSV document within the    *)
(* bounds: a header (or none) followed by up to MaxRows rows of up to      *)
(* MaxCols fields.                                                         *)
(***************************************************************************)
FieldVals == {"1", "2", "x"}

Headers ==
    { <<"latitude", "longitude", "brightness">>,
      <<"brightness", "latitude", "longitude">>,
      <<"latitude", "longitude">>,
      <<"latitude", "scan", "brightness">>,
      <<>> }

RichCsvs ==
    {<<>>} \cup {<<h>> \o d : h \in Headers,
                              d \in SeqsUpTo(SeqsUpTo(FieldVals, MaxCols), MaxRows)}

FireOnce ==
    /\ last.choice = "none"
    /\ \E b \in RichCsvs : SelectFire(Ok(b))

SpecFire == Init /\ [][FireOnce]_vars

(***************************************************************************)
(* fetch_earthquake_data on its own, once, over every feed of up to        *)
(* MaxFeatures features, each with any of its keys missing.                *)
(***************************************************************************)
MagVals == {<<>>, <<-1>>, <<2>>}

TitleVals == {"a", "b"}

CoordLists == {<<>>, <<7>>, <<7, 8>>, <<8, 7, 9>>}

Properties ==
    {[mag |-> m, title |-> t] : m \in MagVals, t \in TitleVals}
        \cup {[mag |-> m] : m \in MagVals}
        \cup {[title |-> t] : t \in TitleVals}

Features ==
    {[properties |-> p, geometry |-> [coordinates |-> c]] :
            p \in Properties, c \in CoordLists}
        \cup {[properties |-> p] : p \in Properties}

RichFeeds ==
    SampleFeeds \cup {[features |-> fl] : fl \in SeqsUpTo(Features, MaxFeatures)}

QuakeOnce ==
    /\ last.choice = "none"
    /\ \E b \in RichFeeds : SelectQuake(Ok(b))

SpecQuake == Init /\ [][QuakeOnce]_vars

(***************************************************************************)
(* plot_data called directly.                                              *)
(***************************************************************************)
CallPlot(lons, lats, values, title, colorbar_title, colorscale, reverse_scale, text) ==
    LET p == plot_data(fs, lons, lats, values, title, colorbar_title, colorscale,
                      reverse_scale, text)
    IN  /\ pc' = pc
        /\ fs' = p.fs
        /\ last' = [choice |-> "plot", net |-> NoNet, outcome |-> "returned",
                    exc |-> "", ret |-> NoRet, plot |-> p.plot, msgs |-> p.msgs]

ValSet == {-1, 0, 1, 3}

Labels == {"Magnitude", "Brightness", "magnitude"}

Coords(n) == [i \in 1..n |-> 7 + i]

Hover(n) == [i \in 1..n |-> "M"]

\* Once, over every value sequence of up to MaxVals values and every label.
PlotOnce ==
    /\ last.choice = "none"
    /\ \E values \in SeqsUpTo(ValSet, MaxVals), label \in Labels,
          title \in {FireTitle, QuakeTitle}, reverse_scale \in BOOLEAN,
          given \in BOOLEAN :
            CallPlot(Coords(Len(values)), Coords(Len(values)), values, title, label,
                     "Viridis", reverse_scale,
                     IF given THEN [given |-> TRUE, v |-> Hover(Len(values))]
                     ELSE NoText)

SpecSize == Init /\ [][PlotOnce]_vars

TitleChars == {"A", "a", " ", "_"}

NameTitles == SeqsUpTo(TitleChars, MaxTitleLen) \cup {FireTitle, QuakeTitle}

\* Repeatedly, over every title, in a directory that holds at most MaxFiles files.
PlotNamed ==
    \E title \in NameTitles, values \in {<<>>, <<3>>} :
        /\ Cardinality(DOMAIN fs \cup {Filename(title)}) <= MaxFiles
        /\ CallPlot(Coords(Len(values)), Coords(Len(values)), values, title,
                    "Magnitude", "Viridis", TRUE, NoText)

SpecName == Init /\ [][PlotNamed]_vars

(***************************************************************************)
(*                              The claims                                 *)
(***************************************************************************)
FireCall == last.choice = "1" /\ last.net.status = "ok"

QuakeCall == last.choice = "2" /\ last.net.status = "ok"

FailedCall == last.choice \in {"1", "2"} /\ last.net.status # "ok"

RequiredColumns == {"latitude", "longitude", "brightness"}

HasColumns(body) == body # <<>> /\ RequiredColumns \subseteq Range(Head(body))

\* The rows of body (positions 2..Len) whose three selected fields all parse.
NumericRows(body) ==
    {i \in 2..Len(body) :
        \A name \in RequiredColumns :
            \E k \in 1..Len(body[i]) :
                /\ k = Index(Head(body), name)
                /\ IsFloat(body[i][k])}

\* C1: for a CSV whose header has latitude, longitude and brightness,
\* fetch_fire_data returns without raising, its three sequences have equal
\* length, and that length is the number of data rows whose three selected
\* fields all parse as numbers (short and blank rows included).
C1_FireRowsCounted ==
    (FireCall /\ HasColumns(last.net.body)) =>
        /\ last.outcome = "returned"
        /\ Len(last.ret) = 3
        /\ \A k \in 1..3 : Len(last.ret[k]) = Cardinality(NumericRows(last.net.body))

\* C2: for a fetched CSV whose header lacks one of the three column names
\* (or that has no header row at all), fetch_fire_data returns three empty
\* sequences and prints the diagnostic, and does not raise.
C2_MissingColumnsHandled ==
    (FireCall /\ ~HasColumns(last.net.body)) =>
        /\ last.outcome = "returned"
        /\ last.ret = << <<>>, <<>>, <<>> >>
        /\ \E i \in 1..Len(last.msgs) :
              last.msgs[i].text = "Error: CSV file does not contain expected columns."

\* The shape section 6 of the specification gives a feature.
Conforms(f) ==
    /\ {"properties", "geometry"} \subseteq DOMAIN f
    /\ {"mag", "title"} \subseteq DOMAIN f.properties
    /\ "coordinates" \in DOMAIN f.geometry
    /\ Len(f.geometry.coordinates) >= 2

MagPresent(f) == "properties" \in DOMAIN f /\ "mag" \in DOMAIN f.properties

MagNull(f) == MagPresent(f) /\ f.properties.mag = <<>>

HasMagnitude(f) == MagPresent(f) /\ f.properties.mag # <<>>

\* The four sequences are, entry by entry, the features of feats that
\* satisfy HasMagnitude, in source order.
IsProjection(ret, feats) ==
    LET keep == {i \in 1..Len(feats) : HasMagnitude(feats[i])}
        Pos(i) == Cardinality({j \in keep : j <= i})
    IN  /\ Len(ret) = 4
        /\ \A k \in 1..4 : Len(ret[k]) = Cardinality(keep)
        /\ \A i \in keep :
              /\ ret[1][Pos(i)] = feats[i].properties.mag[1]
              /\ ret[2][Pos(i)] = feats[i].geometry.coordinates[1]
              /\ ret[3][Pos(i)] = feats[i].geometry.coordinates[2]
              /\ ret[4][Pos(i)] = feats[i].properties.title

\* C3: for a feature list of the documented shape fetch_earthquake_data
\* returns, and whenever it returns, its four sequences have equal length,
\* the number of features with non-null mag, the i-th entries being the
\* mag, coordinates[0], coordinates[1] and title of the i-th such feature
\* in source order; a feature with mag null contributes to none.
C3_QuakeProjection ==
    QuakeCall /\ "features" \in DOMAIN last.net.body =>
        LET feats == last.net.body.features IN
        /\ (\A i \in 1..Len(feats) : Conforms(feats[i])) => last.outcome = "returned"
        /\ last.outcome = "returned" => IsProjection(last.ret, feats)

C3_Witness ==
    /\ QuakeCall
    /\ last.outcome = "returned"
    /\ Len(last.net.body.features) = 3
    /\ MagNull(last.net.body.features[2])
    /\ last.ret = << <<2, -1>>, <<7, 8>>, <<8, 7>>, <<"M 2", "M -1">> >>

\* C4: a feature whose magnitude is absent or null is skipped entirely: it
\* adds nothing to the four sequences, the loader does not raise because of
\* it, and the remaining features are still processed.
C4_AbsentOrNullSkipped ==
    (/\ QuakeCall
     /\ "features" \in DOMAIN last.net.body
     /\ \A i \in 1..Len(last.net.body.features) :
           LET f == last.net.body.features[i]
           IN  Conforms(f) \/ ~HasMagnitude(f)) =>
        /\ last.outcome = "returned"
        /\ IsProjection(last.ret, last.net.body.features)

\* C5: a transport failure on either fetch never raises out of the loader;
\* the fire loader returns three empty sequences and the earthquake loader
\* four, the menu prints its no-data message and does not call plot_data.
C5_TransportFailure ==
    FailedCall =>
        /\ last.outcome = "returned"
        /\ pc = "prompt"
        /\ last.plot = NoPlot
        /\ Len(last.msgs) = 2
        /\ last.choice = "1" =>
              /\ last.ret = << <<>>, <<>>, <<>> >>
              /\ last.msgs[1].text = "Error fetching fire data"
              /\ last.msgs[2].text = "No fire data available to plot."
        /\ last.choice = "2" =>
              /\ last.ret = << <<>>, <<>>, <<>>, <<>> >>
              /\ last.msgs[1].text = "Error fetching earthquake data"
              /\ last.msgs[2].text = "No earthquake data available to plot."

C5_Witness ==
    /\ FailedCall
    /\ last.choice = "2"
    /\ last.net.status = "http_error"
    /\ Filename(QuakeTitle) \in DOMAIN fs

\* C6: the size sequence of plot_data has one entry per value; under the
\* colorbar label "Magnitude" the entry for v is the larger of 5*v and 5,
\* so never below 5; under any other label every entry is 10.
C6_MarkerSizePolicy ==
    last.plot.called =>
        LET m      == last.plot.fig.data[1].marker
            values == m.color
        IN  /\ Len(m.size) = Len(values)
            /\ \A i \in 1..Len(values) :
                  IF m.colorbar.title = "Magnitude"
                  THEN /\ m.size[i] >= 5
                       /\ m.size[i] >= 5 * values[i]
                       /\ m.size[i] \in {5, 5 * values[i]}
                  ELSE m.size[i] = 10

C6_Witness ==
    /\ last.choice = "plot"
    /\ last.plot.fig.data[1].marker.colorbar.title = "Magnitude"
    /\ last.plot.fig.data[1].marker.color = <<-1, 3>>
    /\ last.plot.fig.data[1].marker.size = <<5, 15>>

HtmlSuffix == <<".", "h", "t", "m", "l">>

\* The filename is the title, letter by letter: a space became an
\* underscore, an upper-case letter its lower-case letter, anything else
\* is kept; ".html" follows.
IsSlugOf(name, title) ==
    /\ Len(name) = Len(title) + 5
    /\ SubSeq(name, Len(title) + 1, Len(title) + 5) = HtmlSuffix
    /\ \A i \in 1..Len(title) :
          /\ title[i] = " " => name[i] = "_"
          /\ \A k \in 1..26 : title[i] = UpperLetters[k] => name[i] = LowerLetters[k]
          /\ (title[i] # " " /\ title[i] \notin Range(UpperLetters)) => name[i] = title[i]

FireFilename == <<"g","l","o","b","a","l","_","f","i","r","e","_",
                  "a","c","t","i","v","i","t","y",".","h","t","m","l">>

NamedByTitle ==
    last.plot.called =>
        /\ IsSlugOf(last.plot.filename, last.plot.fig.layout.title)
        /\ last.plot.fig.layout.title = FireTitle => last.plot.filename = FireFilename
        /\ last.plot.filename \in DOMAIN fs
        /\ fs[last.plot.filename] = last.plot.fig

\* A call whose title is that of a file written earlier writes that file
\* again, whatever its other arguments, and creates no other.
SameTitleSameFile ==
    last'.plot.called =>
        \A n \in DOMAIN fs \ {CacheFile} :
            fs[n].layout.title = last'.plot.fig.layout.title =>
                /\ last'.plot.filename = n
                /\ DOMAIN fs' = DOMAIN fs
                /\ fs'[n] = last'.plot.fig

\* C7: the filename of plot_data is a function of the title alone: the
\* title lower-cased, each space replaced by an underscore, followed by
\* ".html" ("Global Fire Activity" gives "global_fire_activity.html"); a
\* later call with the same title writes the same file, whatever the other
\* arguments and the calls before it.
C7_FilenameFromTitle == [](NamedByTitle) /\ [][SameTitleSameFile]_vars

C7_Witness ==
    /\ last.choice = "plot"
    /\ last.plot.replaced
    /\ last.plot.fig.layout.title = FireTitle
    /\ last.plot.filename = FireFilename
    /\ last.plot.fig.data[1].marker.color = <<3>>
    /\ Cardinality(DOMAIN fs) = 2

\* C8: the process stops only in response to choice '3'; after an invalid
\* input and after a selection whose fetch fails the program is back at
\* the prompt.
C8_StopsOnlyOnExit ==
    /\ pc # "prompt" => last.choice = "3"
    /\ last.choice \notin {"none", "3"} => pc = "prompt"

SchemaFailure(f) == HasMagnitude(f) /\ ~Conforms(f)

\* C9: a schema failure on a feature with non-null magnitude (no geometry,
\* fewer than two coordinates, no title) is not caught: the loader raises,
\* returns no sequences, and plot_data is not called for that selection.
C9_SchemaFailurePropagates ==
    (/\ QuakeCall
     /\ "features" \in DOMAIN last.net.body
     /\ \E i \in 1..Len(last.net.body.features) :
           SchemaFailure(last.net.body.features[i])) =>
        /\ last.outcome = "raised"
        /\ last.exc \in {"KeyError", "IndexError"}
        /\ last.ret = NoRet
        /\ last.plot = NoPlot
        /\ last.msgs = <<>>
        /\ Filename(QuakeTitle) \notin DOMAIN fs
        /\ pc = "crashed"

C9_Witness ==
    /\ QuakeCall
    /\ Len(last.net.body.features) = 2
    /\ Conforms(last.net.body.features[1])
    /\ HasMagnitude(last.net.body.features[1])
    /\ SchemaFailure(last.net.body.features[2])
    /\ "title" \notin DOMAIN last.net.body.features[2].properties
    /\ last.outcome = "raised"

Cache(f) == IF CacheFile \in DOMAIN f THEN <<f[CacheFile]>> ELSE <<>>

CacheEffect ==
    /\ (last'.choice = "1" /\ last'.net.status # "ok") => Cache(fs') = Cache(fs)
    /\ (last'.choice = "1" /\ last'.net.status = "ok") => Cache(fs') = <<last'.net.body>>
    /\ last'.choice # "1" => Cache(fs') = Cache(fs)

\* C10: a fire fetch that fails in transport leaves the cache file as it
\* was; one that succeeds leaves it holding that response's bytes, also
\* when parsing ends with the missing-column diagnostic; the earthquake
\* loader and plot_data never change it.
C10_CacheEffect == [][CacheEffect]_vars

C10_Witness ==
    /\ last.choice = "1"
    /\ last.net.status = "connection_error"
    /\ Cache(fs) = << << <<"latitude", "longitude", "scan">>, <<"1", "2", "3">> >> >>
    /\ Filename(FireTitle) \in DOMAIN fs

====
